---- MODULE Spec2Model ----
(***************************************************************************)
(* Portfolio valuation engine of barrydeen/stonks: the ledger fold, the    *)
(* live valuation, the daily snapshot write path, the gap-filled series,   *)
(* the scheduler gate and the exchange-rate resolution.                     *)
(*                                                                         *)
(* JavaScript numbers are modelled as exact rationals <<n, d>> (d > 0, in   *)
(* lowest terms); instants are minutes since the epoch, in UTC.            *)
(***************************************************************************)
EXTENDS Integers, Sequences, FiniteSets, TLC

VARIABLES
    ledger,           \* Transaction table: user -> rows in the order findMany returns them
    defaultCurrency,  \* User.defaultCurrency
    now,              \* wall clock, minutes since the epoch (UTC)
    tz,               \* offset of the server's local time from UTC, in hours
    snapshots,        \* PortfolioSnapshot table: set of rows
    quote,            \* what the price source answers per symbol (a price or null)
    fx,               \* what the rate service answers per direction (a rate or unavailable)
    resp,             \* the response of the last request served
    run,              \* the bulk snapshot run in progress (scheduler)
    rates,            \* ExchangeRate table: set of rows
    calls,            \* calls made to an external provider while serving the last request
    provider,         \* what the external rate provider answers per direction
    priceCache,       \* the in-process priceCache Map of asset-pricing.ts
    assetPrices,      \* AssetPrice table: set of rows
    market,           \* what the external price provider answers per symbol
    tasks,            \* the asynchronous calls in progress (price lookups, snapshot writes), each at its await
    wlog              \* log line of the write path, when the last step was an invocation of it

priceVars == <<priceCache, assetPrices, market, tasks>>

vars == <<ledger, defaultCurrency, now, tz, snapshots, quote, fx, resp, run, rates, calls, provider,
          priceCache, assetPrices, market, tasks, wlog>>

(***************************************************************************)
(* Bounds of the model                                                     *)
(***************************************************************************)
MaxTx == 3

Users == {"u1", "u2"}
Currencies == {"CAD", "USD"}

(***************************************************************************)
(* Numbers                                                                 *)
(***************************************************************************)
Abs(x) == IF x < 0 THEN -x ELSE x

RECURSIVE GCD(_, _)
GCD(a, b) == IF b = 0 THEN a ELSE GCD(b, a % b)

Rat(n, d) ==
    LET s == IF d < 0 THEN -1 ELSE 1
        g == GCD(Abs(n), Abs(d))
    IN  IF n = 0 THEN <<0, 1>> ELSE <<(s * n) \div g, (s * d) \div g>>

R(n) == <<n, 1>>
RZero == <<0, 1>>
ROne == <<1, 1>>
RAdd(a, b) == Rat(a[1] * b[2] + b[1] * a[2], a[2] * b[2])
RSub(a, b) == Rat(a[1] * b[2] - b[1] * a[2], a[2] * b[2])
RMul(a, b) == Rat(a[1] * b[1], a[2] * b[2])
RDiv(a, b) == Rat(a[1] * b[2], a[2] * b[1])
RLt(a, b) == a[1] * b[2] < b[1] * a[2]
RLe(a, b) == a[1] * b[2] <= b[1] * a[2]
RPos(a) == a[1] > 0

(***************************************************************************)
(* Ledger fold (GET /api/portfolio and calculateLivePortfolioValue)        *)
(***************************************************************************)
Tx(type, symbol, currency, quantity, price) ==
    [type |-> type, symbol |-> symbol, currency |-> currency,
     quantity |-> quantity, price |-> price]

Key(symbol, currency) == <<symbol, currency>>

NewHolding(symbol, currency) ==
    [symbol |-> symbol, quantity |-> RZero, avgPrice |-> RZero,
     currentPrice |-> RZero, currency |-> currency, totalValue |-> RZero,
     totalCost |-> RZero, gainLoss |-> RZero, gainLossPercent |-> RZero,
     isCash |-> FALSE]

EmptyFold == [holdings |-> <<>>, cashBalances |-> <<>>]

Put(f, k, v) == [x \in (DOMAIN f) \cup {k} |-> IF x = k THEN v ELSE f[x]]

ApplyCashFloored(st, t) ==
    LET c == t.currency
        bal == IF c \in DOMAIN st.cashBalances THEN st.cashBalances[c] ELSE RZero
        amount == RMul(R(t.quantity), R(t.price))
        newBal == IF t.type = "DEPOSIT" THEN RAdd(bal, amount) ELSE RSub(bal, amount)
    IN  [st EXCEPT !.cashBalances = Put(st.cashBalances, c,
                                        IF RPos(newBal) THEN newBal ELSE RZero)]

ApplyCash(st, t) ==
    LET c == t.currency
        bal == IF c \in DOMAIN st.cashBalances THEN st.cashBalances[c] ELSE RZero
        amount == RMul(R(t.quantity), R(t.price))
        newBal == IF t.type = "DEPOSIT" THEN RAdd(bal, amount) ELSE RSub(bal, amount)
    IN  [st EXCEPT !.cashBalances = Put(st.cashBalances, c, newBal)]

SellCostAtPrice(h, t) == RMul(R(t.quantity), R(t.price))

SellCost(h, t) == RMul(R(t.quantity), h.avgPrice)

ApplyBuyLastPrice(h, t) ==
    [h EXCEPT !.avgPrice = R(t.price),
              !.quantity = RAdd(h.quantity, R(t.quantity)),
              !.totalCost = RAdd(h.totalCost, RMul(R(t.quantity), R(t.price)))]

ApplyBuy(h, t) ==
    LET transactionValue == RMul(R(t.quantity), R(t.price))
        newTotalCost == RAdd(h.totalCost, transactionValue)
        newQuantity == RAdd(h.quantity, R(t.quantity))
    IN  [h EXCEPT !.avgPrice = IF RPos(newQuantity) THEN RDiv(newTotalCost, newQuantity)
                               ELSE RZero,
                  !.quantity = newQuantity,
                  !.totalCost = newTotalCost]

ApplySell(h, t) ==
    LET q == RSub(h.quantity, R(t.quantity))
        c == RSub(h.totalCost, SellCost(h, t))
    IN  IF RLe(q, RZero)
        THEN [h EXCEPT !.quantity = RZero, !.totalCost = RZero, !.avgPrice = RZero]
        ELSE [h EXCEPT !.quantity = q, !.totalCost = c]

ApplyStockDebitsCash(st, t) ==
    LET k == Key(t.symbol, t.currency)
        h == IF k \in DOMAIN st.holdings THEN st.holdings[k]
             ELSE NewHolding(t.symbol, t.currency)
        h2 == IF t.type = "BUY" THEN ApplyBuy(h, t)
              ELSE IF t.type = "SELL" THEN ApplySell(h, t)
              ELSE h
        bal == IF t.currency \in DOMAIN st.cashBalances THEN st.cashBalances[t.currency]
               ELSE RZero
    IN  [holdings |-> Put(st.holdings, k, h2),
         cashBalances |-> IF t.type = "BUY"
                          THEN Put(st.cashBalances, t.currency,
                                   RSub(bal, RMul(R(t.quantity), R(t.price))))
                          ELSE st.cashBalances]

ApplyStock(st, t) ==
    LET k == Key(t.symbol, t.currency)
        h == IF k \in DOMAIN st.holdings THEN st.holdings[k]
             ELSE NewHolding(t.symbol, t.currency)
        h2 == IF t.type = "BUY" THEN ApplyBuy(h, t)
              ELSE IF t.type = "SELL" THEN ApplySell(h, t)
              ELSE h
    IN  [st EXCEPT !.holdings = Put(st.holdings, k, h2)]

ApplyTransaction(st, t) ==
    IF t.type \in {"DEPOSIT", "WITHDRAWAL"} THEN ApplyCash(st, t) ELSE ApplyStock(st, t)

RECURSIVE FoldFrom(_, _, _)
FoldFrom(st, txs, i) ==
    IF i > Len(txs) THEN st ELSE FoldFrom(ApplyTransaction(st, txs[i]), txs, i + 1)

FoldLedger(txs) == FoldFrom(EmptyFold, txs, 1)

(***************************************************************************)
(* Valuation (GET /api/portfolio)                                          *)
(***************************************************************************)
CashHolding(currency, balance) ==
    [symbol |-> "CASH", quantity |-> balance, avgPrice |-> ROne,
     currentPrice |-> ROne, currency |-> currency, totalValue |-> balance,
     totalCost |-> balance, gainLoss |-> RZero, gainLossPercent |-> RZero,
     isCash |-> TRUE]

RECURSIVE AddCash(_, _, _)
AddCash(holdings, cashBalances, todo) ==
    IF todo = {} THEN holdings
    ELSE LET c == CHOOSE x \in todo : TRUE
             next == IF RPos(cashBalances[c])
                     THEN Put(holdings, Key("CASH", c), CashHolding(c, cashBalances[c]))
                     ELSE holdings
         IN  AddCash(next, cashBalances, todo \ {c})

WithCash(st) == AddCash(st.holdings, st.cashBalances, DOMAIN st.cashBalances)

ActiveHoldings(holdings) ==
    [k \in {x \in DOMAIN holdings : RPos(holdings[x].quantity)} |-> holdings[k]]

NoPrice == [ok |-> FALSE, price |-> RZero, currency |-> "USD"]
Price(p, currency) == [ok |-> TRUE, price |-> p, currency |-> currency]

PricePortfolioHoldingOfValue(h, p) ==
    IF p.ok
    THEN LET tv == RMul(h.quantity, p.price)
             gl == RSub(tv, h.totalCost)
         IN  [h EXCEPT !.currentPrice = p.price, !.totalValue = tv, !.gainLoss = gl,
                       !.gainLossPercent = IF RPos(tv)
                                           THEN RMul(RDiv(gl, tv), R(100))
                                           ELSE RZero]
    ELSE [h EXCEPT !.currentPrice = h.avgPrice,
                   !.totalValue = RMul(h.quantity, h.avgPrice),
                   !.gainLoss = RZero, !.gainLossPercent = RZero]

PricePortfolioHolding(h, p) ==
    IF p.ok
    THEN LET tv == RMul(h.quantity, p.price)
             gl == RSub(tv, h.totalCost)
         IN  [h EXCEPT !.currentPrice = p.price, !.totalValue = tv, !.gainLoss = gl,
                       !.gainLossPercent = IF RPos(h.totalCost)
                                           THEN RMul(RDiv(gl, h.totalCost), R(100))
                                           ELSE RZero]
    ELSE [h EXCEPT !.currentPrice = h.avgPrice,
                   !.totalValue = RMul(h.quantity, h.avgPrice),
                   !.gainLoss = RZero, !.gainLossPercent = RZero]

RECURSIVE RSum(_, _)
RSum(f, todo) ==
    IF todo = {} THEN RZero
    ELSE LET k == CHOOSE x \in todo : TRUE IN RAdd(f[k], RSum(f, todo \ {k}))

PortfolioOf(txs, prices) ==
    LET active == ActiveHoldings(WithCash(FoldLedger(txs)))
        priced == [k \in DOMAIN active |->
                     IF active[k].isCash THEN active[k]
                     ELSE PricePortfolioHolding(active[k], prices[active[k].symbol])]
        totalValue == RSum([k \in DOMAIN priced |-> priced[k].totalValue], DOMAIN priced)
        totalCost == RSum([k \in DOMAIN priced |-> priced[k].totalCost], DOMAIN priced)
        totalGainLoss == RSub(totalValue, totalCost)
    IN  [holdings |-> priced,
         summary |-> [totalValue |-> totalValue, totalCost |-> totalCost,
                      totalGainLoss |-> totalGainLoss,
                      totalGainLossPercent |-> IF RPos(totalCost)
                                               THEN RMul(RDiv(totalGainLoss, totalCost), R(100))
                                               ELSE RZero,
                      holdingsCount |-> Cardinality(DOMAIN priced)]]

(***************************************************************************)
(* Live valuation (calculateLivePortfolioValue)                            *)
(***************************************************************************)
Unavailable == [ok |-> FALSE, rate |-> RZero]
Rate(r) == [ok |-> TRUE, rate |-> r]

DefaultUsdToCad == Rat(137, 100)
DefaultCadToUsd == Rat(73, 100)

LiveRate(fxr, from, to) ==
    IF fxr[<<from, to>>].ok THEN fxr[<<from, to>>].rate
    ELSE IF from = "USD" THEN DefaultUsdToCad ELSE DefaultCadToUsd

LiveFold(txs) == FoldLedger(txs)

PriceLiveHolding(h, p) ==
    IF p.ok
    THEN [h EXCEPT !.currentPrice = p.price, !.totalValue = RMul(h.quantity, p.price)]
    ELSE [h EXCEPT !.currentPrice = h.avgPrice, !.totalValue = RMul(h.quantity, h.avgPrice)]

ConvertLive(h, targetCurrency, fxr) ==
    IF h.currency # targetCurrency
    THEN IF h.currency = "USD" /\ targetCurrency = "CAD"
         THEN RMul(h.totalValue, LiveRate(fxr, "USD", "CAD"))
         ELSE IF h.currency = "CAD" /\ targetCurrency = "USD"
         THEN RMul(h.totalValue, LiveRate(fxr, "CAD", "USD"))
         ELSE h.totalValue
    ELSE h.totalValue

calculateLivePortfolioValue(txs, targetCurrency, prices, fxr) ==
    LET active == ActiveHoldings(WithCash(LiveFold(txs)))
        priced == [k \in DOMAIN active |->
                     IF active[k].isCash THEN active[k]
                     ELSE PriceLiveHolding(active[k], prices[active[k].symbol])]
    IN  RSum([k \in DOMAIN priced |-> ConvertLive(priced[k], targetCurrency, fxr)],
             DOMAIN priced)

(***************************************************************************)
(* Snapshot write path (createPortfolioSnapshot)                           *)
(***************************************************************************)
RECURSIVE SnapshotQuantities(_, _, _)
SnapshotQuantities(acc, txs, i) ==
    IF i > Len(txs) THEN acc
    ELSE LET t == txs[i]
             existing == IF t.symbol \in DOMAIN acc THEN acc[t.symbol] ELSE RZero
             q == IF t.type = "BUY" THEN RAdd(existing, R(t.quantity))
                  ELSE RSub(existing, R(t.quantity))
         IN  SnapshotQuantities(Put(acc, t.symbol, q), txs, i + 1)

SnapshotCounted(qty, prices) ==
    {s \in DOMAIN qty : RPos(qty[s]) /\ prices[s].ok}

SnapshotValuation(txs, defaultCur, prices, fxr) ==
    LET qty == SnapshotQuantities(<<>>, txs, 1)
        counted == SnapshotCounted(qty, prices)
        needsRate == {s \in counted : prices[s].currency # defaultCur}
        value(s) == LET v == RMul(qty[s], prices[s].price)
                    IN  IF s \in needsRate
                        THEN RMul(v, fxr[<<prices[s].currency, defaultCur>>].rate)
                        ELSE v
    IN  [ok |-> \A s \in needsRate : fxr[<<prices[s].currency, defaultCur>>].ok,
         totalValue |-> RSum([s \in counted |-> value(s)], counted)]

Round2(a) ==
    LET n == Abs(a[1]) * 100
        q == (2 * n + a[2]) \div (2 * a[2])
    IN  Rat(IF a[1] < 0 THEN -q ELSE q, 100)

MinutesPerHour == 60
MinutesPerDay == 1440
MarketCloseHour == 16

LocalMinutes(t, offset) == t + offset * MinutesPerHour
LocalDay(t, offset) == LocalMinutes(t, offset) \div MinutesPerDay
LocalHour(t, offset) == (LocalMinutes(t, offset) % MinutesPerDay) \div MinutesPerHour
LocalInstant(day, hour, offset) == day * MinutesPerDay + hour * MinutesPerHour - offset * MinutesPerHour
IsoDate(t) == t \div MinutesPerDay

SnapshotDate(t, offset) == LocalInstant(LocalDay(t, offset), MarketCloseHour, offset)

SnapshotRow(userId, date, totalValue, currency) ==
    [userId |-> userId, date |-> date, totalValue |-> Round2(totalValue), currency |-> currency]

InsertRow(table, row) == table \cup {row}

Upsert(table, row) ==
    {r \in table : ~(r.userId = row.userId /\ r.date = row.date)} \cup {row}

createPortfolioSnapshot(table, userId, txs, defaultCur, prices, fxr, db, t, offset) ==
    LET v == SnapshotValuation(txs, defaultCur, prices, fxr)
        row == SnapshotRow(userId, SnapshotDate(t, offset), v.totalValue, defaultCur)
    IN  IF db = "readFails" THEN [table |-> table, outcome |-> "failed", threw |-> FALSE]
        ELSE IF Len(txs) = 0 THEN [table |-> table, outcome |-> "skipped", threw |-> FALSE]
        ELSE IF ~v.ok \/ db = "upsertFails"
        THEN [table |-> table, outcome |-> "failed", threw |-> FALSE]
        ELSE [table |-> Upsert(table, row), outcome |-> "written", threw |-> FALSE]

(***************************************************************************)
(* Environment: symbols, prices and rates the external providers answer    *)
(***************************************************************************)
Symbols == {"X", "CASH"}
Directions == {<<"USD", "CAD">>, <<"CAD", "USD">>}

StartDay == 400
StartInstant == StartDay * MinutesPerDay + 17 * MinutesPerHour

QuoteChoices ==
    {[s \in Symbols |-> NoPrice],
     [s \in Symbols |-> IF s = "X" THEN Price(R(3), "USD") ELSE NoPrice]}

FxChoices ==
    {[d \in Directions |-> Unavailable],
     [d \in Directions |-> IF d[1] = "USD" THEN Rate(Rat(11, 8)) ELSE Rate(Rat(8, 11))]}

TxUniverse ==
    {Tx("BUY", "X", c, q, p) : c \in Currencies, q \in {1, 2}, p \in {1, 2}}
    \cup {Tx("SELL", "X", c, q, 1) : c \in Currencies, q \in {1, 2}}
    \cup {Tx("DEPOSIT", "CASH", c, 2, 1) : c \in Currencies}
    \cup {Tx("WITHDRAWAL", "CASH", c, q, 1) : c \in Currencies, q \in {1, 3}}

MarketSymbols == {"X", "Y"}
NoEntry == [has |-> FALSE]
NoTasks == [kind |-> "none"]
PricesUnused ==
    /\ priceCache = [s \in MarketSymbols |-> NoEntry]
    /\ assetPrices = {}
    /\ market = [s \in MarketSymbols |-> NoPrice]
    /\ tasks = NoTasks

ProviderDown == [d \in Directions |-> Unavailable]
NoResp == [kind |-> "none"]
Idle == [status |-> "idle"]
NoLog == [outcome |-> "none"]

(***************************************************************************)
(* Ledger requests: POST /api/transactions, GET /api/portfolio             *)
(***************************************************************************)
PostTransaction(u, t) ==
    /\ Len(ledger[u]) < MaxTx
    /\ ledger' = [ledger EXCEPT ![u] = Append(@, t)]
    /\ resp' = [kind |-> "transaction", status |-> 200, user |-> u]
    /\ UNCHANGED <<defaultCurrency, now, tz, snapshots, quote, fx, run, rates, calls, provider, priceVars>>

GetPortfolio(u) ==
    /\ resp' = [kind |-> "portfolio", status |-> 200, user |-> u,
                body |-> PortfolioOf(ledger[u], quote)]
    /\ UNCHANGED <<ledger, defaultCurrency, now, tz, snapshots, quote, fx, run, rates, calls, provider, priceVars>>

InitLedger ==
    /\ ledger = [u \in Users |-> <<>>]
    /\ defaultCurrency = [u \in Users |-> IF u = "u1" THEN "CAD" ELSE "USD"]
    /\ now = StartInstant
    /\ tz = 0
    /\ snapshots = {}
    /\ quote \in QuoteChoices
    /\ fx \in FxChoices
    /\ resp = NoResp
    /\ run = Idle
    /\ rates = {}
    /\ calls = 0
    /\ provider = ProviderDown
    /\ PricesUnused
    /\ wlog = NoLog

NextLedger ==
    \/ \E t \in TxUniverse : PostTransaction("u1", t) /\ UNCHANGED wlog
    \/ GetPortfolio("u1") /\ UNCHANGED wlog

SpecLedger == InitLedger /\ [][NextLedger]_vars

(***************************************************************************)
(* Claims on the ledger fold                                               *)
(***************************************************************************)
RECURSIVE SumQuantity(_, _)
SumQuantity(txs, i) == IF i > Len(txs) THEN 0 ELSE txs[i].quantity + SumQuantity(txs, i + 1)

RECURSIVE SumCost(_, _)
SumCost(txs, i) ==
    IF i > Len(txs) THEN 0 ELSE txs[i].quantity * txs[i].price + SumCost(txs, i + 1)

BuysOfOneKey(txs) ==
    /\ Len(txs) > 0
    /\ \A i \in 1..Len(txs) :
          /\ txs[i].type = "BUY"
          /\ txs[i].symbol = txs[1].symbol
          /\ txs[i].currency = txs[1].currency

\* C1: after a ledger of BUYs only, all on one (symbol, currency), the holding
\* returned has quantity = sum of quantities, total cost = sum of quantity x price
\* and average cost = total cost / total quantity.
C1_BuyOnlyAverage ==
    (resp.kind = "portfolio" /\ BuysOfOneKey(ledger[resp.user])) =>
        LET txs == ledger[resp.user]
            k == Key(txs[1].symbol, txs[1].currency)
            hs == resp.body.holdings
        IN  /\ k \in DOMAIN hs
            /\ hs[k].quantity = R(SumQuantity(txs, 1))
            /\ hs[k].totalCost = R(SumCost(txs, 1))
            /\ hs[k].avgPrice = Rat(SumCost(txs, 1), SumQuantity(txs, 1))

C1_Witness ==
    /\ resp.kind = "portfolio"
    /\ BuysOfOneKey(ledger[resp.user])
    /\ Len(ledger[resp.user]) = 3
    /\ \E i, j \in 1..3 : ledger[resp.user][i].price # ledger[resp.user][j].price
    /\ resp.body.holdings[Key("X", ledger[resp.user][1].currency)].avgPrice[2] # 1

HoldingAt(st, t) ==
    IF Key(t.symbol, t.currency) \in DOMAIN st.holdings
    THEN st.holdings[Key(t.symbol, t.currency)]
    ELSE NewHolding(t.symbol, t.currency)

SellSteps(txs) == {i \in 1..Len(txs) : txs[i].type = "SELL"}
Before(txs, i) == HoldingAt(FoldLedger(SubSeq(txs, 1, i - 1)), txs[i])
After(txs, i) == HoldingAt(FoldLedger(SubSeq(txs, 1, i)), txs[i])

SellKeepsAverage(b, a, t) ==
    /\ a.avgPrice = b.avgPrice
    /\ a.quantity = RSub(b.quantity, R(t.quantity))
    /\ a.totalCost = RSub(b.totalCost, RMul(R(t.quantity), b.avgPrice))

SellZeroes(a) == a.quantity = RZero /\ a.totalCost = RZero /\ a.avgPrice = RZero

\* C2 as stated: a SELL of a quantity <= the holding keeps the average cost and
\* removes quantity and quantity x average cost; a SELL driving the quantity to
\* <= 0 zeroes quantity, total cost and average cost.
C2_Original ==
    \A u \in Users : \A i \in SellSteps(ledger[u]) :
        LET t == ledger[u][i]
            b == Before(ledger[u], i)
            a == After(ledger[u], i)
        IN  /\ RLe(R(t.quantity), b.quantity) => SellKeepsAverage(b, a, t)
            /\ RLe(RSub(b.quantity, R(t.quantity)), RZero) => SellZeroes(a)

\* C2 amended: a SELL of a quantity strictly below the holding keeps the average
\* cost and removes quantity and quantity x average cost (not the sale price); a
\* SELL of the whole holding or more zeroes quantity, total cost and average cost.
C2_SellAtAverage ==
    \A u \in Users : \A i \in SellSteps(ledger[u]) :
        LET t == ledger[u][i]
            b == Before(ledger[u], i)
            a == After(ledger[u], i)
        IN  /\ RLt(R(t.quantity), b.quantity) => SellKeepsAverage(b, a, t)
            /\ RLe(b.quantity, R(t.quantity)) => SellZeroes(a)

C2_Witness ==
    /\ resp.kind = "portfolio"
    /\ \E i \in SellSteps(ledger["u1"]) :
          /\ RLt(R(ledger["u1"][i].quantity), Before(ledger["u1"], i).quantity)
          /\ Before(ledger["u1"], i).avgPrice # R(ledger["u1"][i].price)
    /\ \E i \in SellSteps(ledger["u1"]) :
          /\ RPos(Before(ledger["u1"], i).quantity)
          /\ RLe(Before(ledger["u1"], i).quantity, R(ledger["u1"][i].quantity))

(***************************************************************************)
(* Snapshot requests: POST and GET /api/portfolio/snapshot                 *)
(***************************************************************************)
DbOutcomes == {"up", "readFails", "upsertFails"}

WritePath(u, db) ==
    createPortfolioSnapshot(snapshots, u, ledger[u], defaultCurrency[u], quote, fx, db, now, tz)

PostSnapshot(u, db) ==
    /\ snapshots' = WritePath(u, db).table
    /\ resp' = [kind |-> "snapshot", status |-> IF WritePath(u, db).threw THEN 500 ELSE 200,
                user |-> u]
    /\ UNCHANGED <<ledger, defaultCurrency, now, tz, quote, fx, run, rates, calls, provider, priceVars>>

Ranges == {"7d", "30d", "3m", "6m", "12m", "other"}

getDaysFromRange(range) ==
    CASE range = "7d" -> 7
      [] range = "30d" -> 30
      [] range = "3m" -> 90
      [] range = "6m" -> 180
      [] range = "12m" -> 365
      [] OTHER -> 30

SeriesStart(t, offset, days) == LocalInstant(LocalDay(t, offset) - days, 0, offset)
SeriesToday(t, offset) == LocalInstant(LocalDay(t, offset), 0, offset)

HistoricalSnapshots(table, u, t, offset, days) ==
    {r \in table : /\ r.userId = u
                   /\ r.date >= SeriesStart(t, offset, days)
                   /\ r.date < SeriesToday(t, offset)}

\* snapshotMap.set in ascending date order: the latest row of a key wins
SnapshotMapGet(rows, dateKey) ==
    LET hit == {r \in rows : IsoDate(r.date) = dateKey}
        last == CHOOSE r \in hit : \A q \in hit : q.date <= r.date
    IN  [date |-> dateKey, value |-> last.totalValue, currency |-> last.currency]

SnapshotMapHas(rows, dateKey) == \E r \in rows : IsoDate(r.date) = dateKey

ChartPointStoredFirst(rows, dateKey, todayKey, todayValue, userCurrency) ==
    IF SnapshotMapHas(rows, dateKey)
    THEN SnapshotMapGet(rows, dateKey)
    ELSE IF dateKey = todayKey
    THEN [date |-> dateKey, value |-> todayValue, currency |-> userCurrency]
    ELSE [date |-> dateKey, value |-> RZero, currency |-> userCurrency]

ChartPoint(rows, dateKey, todayKey, todayValue, userCurrency) ==
    IF dateKey = todayKey
    THEN [date |-> dateKey, value |-> todayValue, currency |-> userCurrency]
    ELSE IF SnapshotMapHas(rows, dateKey)
    THEN SnapshotMapGet(rows, dateKey)
    ELSE [date |-> dateKey, value |-> RZero, currency |-> userCurrency]

ChartData(rows, t, offset, days, todayValue, userCurrency) ==
    LET first == LocalDay(t, offset) - days
        todayKey == IsoDate(SeriesToday(t, offset))
    IN  [i \in 1..(days + 1) |->
            ChartPoint(rows, IsoDate(LocalInstant(first + i - 1, 0, offset)),
                       todayKey, todayValue, userCurrency)]

GetSeries(u, range) ==
    LET userCurrency == defaultCurrency[u]
        days == getDaysFromRange(range)
        rows == HistoricalSnapshots(snapshots, u, now, tz, days)
        todayValue == calculateLivePortfolioValue(ledger[u], userCurrency, quote, fx)
    IN  /\ resp' = [kind |-> "series", status |-> 200, user |-> u, range |-> range,
                    data |-> ChartData(rows, now, tz, days, todayValue, userCurrency),
                    totalSnapshots |-> Cardinality(rows), daysInRange |-> days,
                    liveValueForToday |-> todayValue, userCurrency |-> userCurrency,
                    at |-> now]
        /\ UNCHANGED <<ledger, defaultCurrency, now, tz, snapshots, quote, fx, run, rates, calls, provider, priceVars>>

(***************************************************************************)
(* Write path against live valuation, on drawn ledgers, prices and rates   *)
(***************************************************************************)
MaxValueTx == 2

RECURSIVE Ledgers(_)
Ledgers(n) ==
    IF n = 0 THEN {<<>>}
    ELSE Ledgers(n - 1) \cup {Append(l, t) : l \in {x \in Ledgers(n - 1) : Len(x) = n - 1},
                                             t \in TxUniverse}

InitValue ==
    /\ ledger \in {[u \in Users |-> IF u = "u1" THEN l ELSE <<>>] : l \in Ledgers(MaxValueTx)}
    /\ defaultCurrency \in {[u \in Users |-> c] : c \in Currencies}
    /\ now = StartInstant
    /\ tz = 0
    /\ snapshots = {}
    /\ quote \in QuoteChoices
    /\ fx \in FxChoices
    /\ resp = NoResp
    /\ run = Idle
    /\ rates = {}
    /\ calls = 0
    /\ provider = ProviderDown
    /\ PricesUnused
    /\ wlog = NoLog

NextValue ==
    \/ \E db \in DbOutcomes : PostSnapshot("u1", db) /\ UNCHANGED wlog
    \/ GetSeries("u1", "7d") /\ UNCHANGED wlog

SpecValue == InitValue /\ [][NextValue]_vars

TodayRows(u) == {r \in snapshots : r.userId = u /\ r.date = SnapshotDate(now, tz)}

\* C7: the value the write path persists equals the live valuation of the same
\* ledger, prices and rates in the user's default currency (to 2 decimals).
C7_WriteEqualsLive ==
    resp.kind = "snapshot" =>
        \A r \in TodayRows(resp.user) :
            r.totalValue = Round2(calculateLivePortfolioValue(
                               ledger[resp.user], defaultCurrency[resp.user], quote, fx))

(***************************************************************************)
(* The series over several days and server time zones                      *)
(***************************************************************************)
MaxDays == 1

TzOffsets == {-8, 0, 1}
Hours == {0, 15}
ClockPoints(offset) ==
    {LocalInstant(d, h, offset) : d \in StartDay..(StartDay + MaxDays), h \in Hours}

Tick(points) ==
    /\ \E t \in points : t > now /\ now' = t
    /\ resp' = NoResp
    /\ UNCHANGED <<ledger, defaultCurrency, tz, snapshots, quote, fx, run, rates, calls, provider, priceVars>>

MarketMove ==
    /\ \E q \in QuoteChoices : q # quote /\ quote' = q
    /\ resp' = NoResp
    /\ UNCHANGED <<ledger, defaultCurrency, now, tz, snapshots, fx, run, rates, calls, provider, priceVars>>

SeriesLedgers ==
    [u \in Users |-> IF u = "u1" THEN <<Tx("BUY", "X", "USD", 2, 1)>>
                     ELSE <<Tx("BUY", "X", "CAD", 1, 2)>>]

InitSeries ==
    /\ ledger = SeriesLedgers
    /\ defaultCurrency = [u \in Users |-> IF u = "u1" THEN "CAD" ELSE "USD"]
    /\ tz \in TzOffsets
    /\ now = LocalInstant(StartDay, 0, tz)
    /\ snapshots = {}
    /\ quote \in QuoteChoices
    /\ fx = [d \in Directions |-> IF d[1] = "USD" THEN Rate(Rat(11, 8)) ELSE Rate(Rat(8, 11))]
    /\ resp = NoResp
    /\ run = Idle
    /\ rates = {}
    /\ calls = 0
    /\ provider = ProviderDown
    /\ PricesUnused
    /\ wlog = NoLog

NextSeries ==
    \/ Tick(ClockPoints(tz)) /\ UNCHANGED wlog
    \/ MarketMove /\ UNCHANGED wlog
    \/ \E u \in Users, db \in DbOutcomes : PostSnapshot(u, db) /\ UNCHANGED wlog
    \/ \E r \in Ranges : GetSeries("u1", r) /\ UNCHANGED wlog

SpecSeries == InitSeries /\ [][NextSeries]_vars

Today == LocalDay(now, tz)
UtcToday == IsoDate(now)
RangeDays(range) ==
    IF range = "7d" THEN 7 ELSE IF range = "30d" THEN 30 ELSE IF range = "3m" THEN 90
    ELSE IF range = "6m" THEN 180 ELSE IF range = "12m" THEN 365 ELSE 30
WindowOf(last, days) == [i \in 1..(days + 1) |-> last - days + i - 1]
DatesOf(data) == [i \in 1..Len(data) |-> data[i].date]
RowsOfDay(u, d) == {r \in snapshots : r.userId = u /\ LocalDay(r.date, tz) = d}
LiveNow(u) == calculateLivePortfolioValue(ledger[u], defaultCurrency[u], quote, fx)

\* C4: for every range, the series has exactly days+1 points, one per consecutive
\* calendar day of [today - days, today], ascending, whatever is stored.
C4_WindowCoversToday ==
    (resp.kind = "series" /\ resp.range # "other") =>
        /\ Len(resp.data) = RangeDays(resp.range) + 1
        /\ \/ DatesOf(resp.data) = WindowOf(Today, RangeDays(resp.range))
           \/ DatesOf(resp.data) = WindowOf(UtcToday, RangeDays(resp.range))

\* C5: every day of the window other than today carries the value of that user's
\* persisted snapshot of that day when one exists, and 0 when none exists.
C5_HistoryFromStore ==
    resp.kind = "series" =>
        \A d \in (Today - resp.daysInRange)..(Today - 1) :
            \E i \in 1..Len(resp.data) :
                /\ resp.data[i].date = d
                /\ IF RowsOfDay(resp.user, d) # {}
                   THEN \E r \in RowsOfDay(resp.user, d) : resp.data[i].value = r.totalValue
                   ELSE resp.data[i].value = RZero

\* C6: the point the series gives for today equals the live valuation computed
\* during the request, in the user's currency, whatever snapshots are stored.
C6_TodayIsLive ==
    resp.kind = "series" =>
        /\ resp.data[Len(resp.data)].value = LiveNow(resp.user)
        /\ resp.data[Len(resp.data)].currency = defaultCurrency[resp.user]
        /\ resp.liveValueForToday = LiveNow(resp.user)
        /\ \A i \in 1..Len(resp.data) :
              resp.data[i].date \in {Today, UtcToday} => resp.data[i].value = LiveNow(resp.user)

C6_Witness ==
    /\ resp.kind = "series"
    /\ \E r \in RowsOfDay(resp.user, Today) : r.totalValue # LiveNow(resp.user)
    /\ \E r \in RowsOfDay(resp.user, Today - 1) : r.totalValue # LiveNow(resp.user)
    /\ resp.data[Len(resp.data)].date = Today

(***************************************************************************)
(* Scheduler: POST /api/scheduler, runDailyScheduler, scheduleDailySnapshots *)
(***************************************************************************)
DayOfWeek(t, offset) == (LocalDay(t, offset) + 4) % 7

isWeekdayOrSaturday(t, offset) == DayOfWeek(t, offset) >= 1 /\ DayOfWeek(t, offset) <= 6

isWeekday(t, offset) == DayOfWeek(t, offset) >= 1 /\ DayOfWeek(t, offset) <= 5

isMarketClosed(t, offset) == LocalHour(t, offset) >= MarketCloseHour

GateOpen(t, offset) == isWeekday(t, offset) /\ isMarketClosed(t, offset)

UserLists == {<<"u1", "u2">>, <<"u2", "u1">>}

Running(action, users) ==
    [status |-> "running", action |-> action, todo |-> users, attempted |-> {},
     written |-> {}]

SchedulerStart(action) ==
    /\ run.status = "idle"
    /\ action \in {"daily-snapshots", "run-scheduler"}
    /\ action = "run-scheduler" => GateOpen(now, tz)
    /\ \E users \in UserLists : run' = Running(action, users)
    /\ resp' = NoResp
    /\ UNCHANGED <<ledger, defaultCurrency, now, tz, snapshots, quote, fx, rates, calls, provider, priceVars>>

SchedulerSkip ==
    /\ run.status = "idle"
    /\ ~GateOpen(now, tz)
    /\ resp' = [kind |-> "scheduler", action |-> "run-scheduler", status |-> 200,
                ran |-> FALSE, attempted |-> {}, written |-> {}]
    /\ UNCHANGED <<ledger, defaultCurrency, now, tz, snapshots, quote, fx, run, rates, calls, provider, priceVars>>

SchedulerInvalid ==
    /\ resp' = [kind |-> "scheduler", action |-> "other", status |-> 400,
                ran |-> FALSE, attempted |-> {}, written |-> {}]
    /\ UNCHANGED <<ledger, defaultCurrency, now, tz, snapshots, quote, fx, run, rates, calls, provider, priceVars>>

NextTodoAbort(todo, r) == IF r.outcome = "failed" THEN <<>> ELSE Tail(todo)

NextTodo(todo, r) == Tail(todo)

RunStep(db) ==
    /\ run.status = "running"
    /\ run.todo # <<>>
    /\ LET u == Head(run.todo)
           r == WritePath(u, db)
       IN  /\ snapshots' = r.table
           /\ run' = [run EXCEPT
                        !.todo = NextTodo(@, r),
                        !.attempted = @ \cup {u},
                        !.written = IF r.outcome = "written"
                                    THEN @ \cup {[userId |-> u, date |-> SnapshotDate(now, tz)]}
                                    ELSE @]
    /\ UNCHANGED <<ledger, defaultCurrency, now, tz, quote, fx, resp, rates, calls, provider, priceVars>>

RunFinish ==
    /\ run.status = "running"
    /\ run.todo = <<>>
    /\ resp' = [kind |-> "scheduler", action |-> run.action, status |-> 200,
                ran |-> TRUE, attempted |-> run.attempted, written |-> run.written]
    /\ run' = Idle
    /\ UNCHANGED <<ledger, defaultCurrency, now, tz, snapshots, quote, fx, rates, calls, provider, priceVars>>

(***************************************************************************)
(* Log of the write path: what each invocation found and computed          *)
(***************************************************************************)
LogWrite(u, db) ==
    wlog' = [outcome |-> WritePath(u, db).outcome, user |-> u,
             again |-> (wlog.outcome # "none" /\ wlog.user = u),
             before |-> {r \in snapshots : r.userId = u /\ r.date = SnapshotDate(now, tz)},
             value |-> SnapshotValuation(ledger[u], defaultCurrency[u], quote, fx).totalValue]

LogNone == wlog' = NoLog

SchedLedgers ==
    {[u \in Users |-> IF u = "u1" THEN <<Tx("BUY", "X", "USD", 2, 1)>> ELSE l] :
        l \in {<<>>, <<Tx("BUY", "X", "CAD", 1, 2)>>}}

SchedTzOffsets == {-5}

SchedPoints(offset) ==
    {LocalInstant(StartDay + p[1], p[2], offset) : p \in {<<0, 15>>, <<0, 16>>, <<1, 0>>, <<1, 16>>}}

InitSched ==
    /\ ledger \in SchedLedgers
    /\ defaultCurrency = [u \in Users |-> IF u = "u1" THEN "CAD" ELSE "USD"]
    /\ tz \in SchedTzOffsets
    /\ now = LocalInstant(StartDay, 15, tz)
    /\ snapshots = {}
    /\ quote = [s \in Symbols |-> NoPrice]
    /\ fx = [d \in Directions |-> IF d[1] = "USD" THEN Rate(Rat(11, 8)) ELSE Rate(Rat(8, 11))]
    /\ resp = NoResp
    /\ run = Idle
    /\ rates = {}
    /\ calls = 0
    /\ provider = ProviderDown
    /\ PricesUnused
    /\ wlog = NoLog

NextSched ==
    \/ Tick(SchedPoints(tz)) /\ LogNone
    \/ MarketMove /\ LogNone
    \/ \E u \in Users, db \in DbOutcomes : PostSnapshot(u, db) /\ LogWrite(u, db)
    \/ \E a \in {"daily-snapshots", "run-scheduler"} : SchedulerStart(a) /\ LogNone
    \/ SchedulerSkip /\ LogNone
    \/ SchedulerInvalid /\ LogNone
    \/ \E db \in DbOutcomes : RunStep(db) /\ LogWrite(Head(run.todo), db)
    \/ RunFinish /\ LogNone

SpecSched == InitSched /\ [][NextSched]_vars

(***************************************************************************)
(* Claims on the snapshot write path and the scheduler                     *)
(***************************************************************************)
RowsAt(u, d) == {r \in snapshots : r.userId = u /\ r.date = d}
LoggedRow ==
    SnapshotRow(wlog.user, SnapshotDate(now, tz), wlog.value, defaultCurrency[wlog.user])

GatedNoop ==
    resp.kind = "scheduler" /\ resp.action = "run-scheduler" /\ ~resp.ran

\* C8: the gated entry point starts the write path only on Monday-Friday at local
\* hour >= 16; otherwise it writes nothing and answers without error; the forced
\* entry point attempts the write path for every user whatever the day and hour.
C8_GateOnlyWeekdayAfterClose ==
    /\ [][(run.status = "idle" /\ run'.status = "running" /\ run'.action = "run-scheduler")
            => (DayOfWeek(now, tz) \in 1..5 /\ LocalHour(now, tz) >= 16)]_vars
    /\ [][GatedNoop' => (snapshots' = snapshots /\ resp'.status = 200
                         /\ resp'.attempted = {})]_vars
    /\ [][((DayOfWeek(now, tz) \notin 1..5 \/ LocalHour(now, tz) < 16)
            /\ run.status = "idle" /\ resp'.kind = "scheduler" /\ resp' # resp
            /\ resp'.action = "run-scheduler") => GatedNoop']_vars
    /\ []((resp.kind = "scheduler" /\ resp.action = "daily-snapshots")
            => (resp.ran /\ resp.attempted = Users))

C8_Witness ==
    /\ DayOfWeek(now, tz) = 6
    /\ LocalHour(now, tz) >= 16
    /\ GatedNoop
    /\ \E r \in snapshots : r.date = SnapshotDate(now, tz)

\* C9: a failure while processing one user does not abort the bulk run: the write
\* path is attempted for every user, and every user whose write succeeded has a
\* snapshot row for that day afterwards, whichever other users failed.
C9_FailureIsolated ==
    /\ run.status = "running" =>
          /\ run.attempted \cup {run.todo[i] : i \in 1..Len(run.todo)} = Users
          /\ \A w \in run.written : RowsAt(w.userId, w.date) # {}
    /\ (resp.kind = "scheduler" /\ resp.ran) =>
          /\ resp.attempted = Users
          /\ \A w \in resp.written : RowsAt(w.userId, w.date) # {}

C9_Witness ==
    /\ run.status = "running"
    /\ run.todo = <<>>
    /\ run.attempted = Users
    /\ \A u \in Users : ledger[u] # <<>>
    /\ wlog.outcome = "written"
    /\ run.written = {[userId |-> wlog.user, date |-> SnapshotDate(now, tz)]}
    /\ \E u \in Users : u # wlog.user /\ TodayRows(u) = {}

(***************************************************************************)
(* Exchange-rate resolution: src/lib/currency.ts and /api/exchange-rates   *)
(***************************************************************************)
OneHour == 60

RateRow(from, to, rate, t) ==
    [fromCurrency |-> from, toCurrency |-> to, rate |-> rate, timestamp |-> t]

PairRows(table, from, to) ==
    {r \in table : r.fromCurrency = from /\ r.toCurrency = to}

\* orderBy timestamp asc, the first row
OldestRow(rows) == CHOOSE r \in rows : \A q \in rows : r.timestamp <= q.timestamp

\* orderBy timestamp desc, the first row
LatestRow(rows) == CHOOSE r \in rows : \A q \in rows : q.timestamp <= r.timestamp

fetchLatestExchangeRate(from, to, prov) ==
    IF from = to THEN [ok |-> TRUE, rate |-> ROne, calls |-> 0]
    ELSE [ok |-> prov[<<from, to>>].ok, rate |-> prov[<<from, to>>].rate, calls |-> 1]

getLatestStoredRate(table, from, to) ==
    IF from = to THEN [found |-> TRUE, rate |-> ROne]
    ELSE IF PairRows(table, from, to) = {} \/ LatestRow(PairRows(table, from, to)).rate = RZero
    THEN [found |-> FALSE, rate |-> RZero]
    ELSE [found |-> TRUE, rate |-> LatestRow(PairRows(table, from, to)).rate]

saveExchangeRateInPlace(table, from, to, rate, t) ==
    [ok |-> TRUE, table |-> (table \ PairRows(table, from, to)) \cup {RateRow(from, to, rate, t)}]

\* create: timestamp defaults to now(); (fromCurrency, toCurrency, timestamp) is unique
saveExchangeRate(table, from, to, rate, t) ==
    IF \E r \in PairRows(table, from, to) : r.timestamp = t
    THEN [ok |-> FALSE, table |-> table]
    ELSE [ok |-> TRUE, table |-> table \cup {RateRow(from, to, rate, t)}]

RecentRows(table, from, to, t) ==
    {r \in PairRows(table, from, to) : r.timestamp >= t - OneHour}

RateFallbackNone(table, from, to, n) ==
    [ok |-> FALSE, rate |-> RZero, table |-> table, calls |-> n]

RateFallback(table, from, to, n) ==
    LET stored == getLatestStoredRate(table, from, to)
    IN  [ok |-> stored.found, rate |-> stored.rate, table |-> table, calls |-> n]

getExchangeRate(table, from, to, t, prov) ==
    IF from = to THEN [ok |-> TRUE, rate |-> ROne, table |-> table, calls |-> 0]
    ELSE IF RecentRows(table, from, to, t) # {}
    THEN [ok |-> TRUE, rate |-> LatestRow(RecentRows(table, from, to, t)).rate,
          table |-> table, calls |-> 0]
    ELSE LET fetched == fetchLatestExchangeRate(from, to, prov)
             saved == saveExchangeRate(table, from, to, fetched.rate, t)
         IN  IF fetched.ok /\ saved.ok
             THEN [ok |-> TRUE, rate |-> fetched.rate, table |-> saved.table,
                   calls |-> fetched.calls]
             ELSE RateFallback(table, from, to, fetched.calls)

getAllRates(table, baseCurrency, t, prov) ==
    IF baseCurrency = "CAD" THEN getExchangeRate(table, "CAD", "USD", t, prov)
    ELSE getExchangeRate(table, "USD", "CAD", t, prov)

Other(c) == IF c = "CAD" THEN "USD" ELSE "CAD"

\* ?base= is cast to Currency without a check
Bases == Currencies \cup {"EUR"}

\* GET /api/exchange-rates?base=
GetExchangeRates(base) ==
    LET r == getAllRates(rates, base, now, provider)
    IN  /\ rates' = r.table
        /\ calls' = r.calls
        /\ resp' = IF r.ok
                   THEN [kind |-> "rates", status |-> 200, base |-> base, rate |-> r.rate]
                   ELSE [kind |-> "rates", status |-> 500, base |-> base, rate |-> RZero]
        /\ UNCHANGED <<ledger, defaultCurrency, now, tz, snapshots, quote, fx, run, provider, priceVars>>

UpdatePair(acc, from) ==
    LET fetched == fetchLatestExchangeRate(from, Other(from), provider)
        saved == saveExchangeRate(acc.table, from, Other(from), fetched.rate, now)
    IN  IF fetched.ok /\ saved.ok
        THEN [table |-> saved.table, updated |-> acc.updated \cup {from}, calls |-> acc.calls + 1]
        ELSE [table |-> acc.table, updated |-> acc.updated, calls |-> acc.calls + 1]

\* POST /api/exchange-rates/update
UpdateExchangeRates ==
    LET r == UpdatePair(UpdatePair([table |-> rates, updated |-> {}, calls |-> 0], "CAD"), "USD")
    IN  /\ rates' = r.table
        /\ calls' = r.calls
        /\ resp' = [kind |-> "update", status |-> 200, updated |-> r.updated]
        /\ UNCHANGED <<ledger, defaultCurrency, now, tz, snapshots, quote, fx, run, provider, priceVars>>

convertAmount(table, amount, fromCurrency, toCurrency, t, prov) ==
    IF fromCurrency = toCurrency
    THEN [ok |-> TRUE, amount |-> amount, table |-> table, calls |-> 0]
    ELSE LET r == getExchangeRate(table, fromCurrency, toCurrency, t, prov)
         IN  [ok |-> r.ok, amount |-> RMul(amount, r.rate), table |-> r.table, calls |-> r.calls]

Amounts == {1, 100}

\* convertAmount(await convertAmount(x, a, b), b, a)
ConvertRoundTrip(x, a) ==
    LET there == convertAmount(rates, R(x), a, Other(a), now, provider)
        back == convertAmount(there.table, there.amount, Other(a), a, now, provider)
    IN  /\ rates' = IF there.ok THEN back.table ELSE there.table
        /\ calls' = IF there.ok THEN there.calls + back.calls ELSE there.calls
        /\ resp' = IF there.ok /\ back.ok
                   THEN [kind |-> "convert", status |-> 200, base |-> a, amount |-> R(x),
                         there |-> there.amount, back |-> back.amount]
                   ELSE [kind |-> "convert", status |-> 500, base |-> a, amount |-> R(x),
                         there |-> RZero, back |-> RZero]
        /\ UNCHANGED <<ledger, defaultCurrency, now, tz, snapshots, quote, fx, run, provider, priceVars>>

ProviderChoices ==
    {ProviderDown,
     [d \in Directions |-> IF d[1] = "USD" THEN Rate(Rat(11, 8)) ELSE Rate(Rat(8, 11))],
     [d \in Directions |-> IF d[1] = "USD" THEN Rate(Rat(3, 2)) ELSE Rate(Rat(2, 3))]}

ProviderMove ==
    /\ \E p \in ProviderChoices : p # provider /\ provider' = p
    /\ resp' = NoResp
    /\ UNCHANGED <<ledger, defaultCurrency, now, tz, snapshots, quote, fx, run, rates, calls, priceVars>>

RateHorizon == 92
RateSteps == {30, 31}
RatePoints(t) == {t + d : d \in RateSteps} \cap (StartInstant..(StartInstant + RateHorizon))

InitRate ==
    /\ ledger = [u \in Users |-> <<>>]
    /\ defaultCurrency = [u \in Users |-> "CAD"]
    /\ now = StartInstant
    /\ tz = 0
    /\ snapshots = {}
    /\ quote = [s \in Symbols |-> NoPrice]
    /\ fx = ProviderDown
    /\ resp = NoResp
    /\ run = Idle
    /\ rates = {}
    /\ calls = 0
    /\ provider \in ProviderChoices
    /\ PricesUnused
    /\ wlog = NoLog

NextRate ==
    \/ Tick(RatePoints(now)) /\ UNCHANGED wlog
    \/ ProviderMove /\ UNCHANGED wlog
    \/ \E base \in Bases : GetExchangeRates(base) /\ UNCHANGED wlog
    \/ UpdateExchangeRates /\ UNCHANGED wlog

SpecRate == InitRate /\ [][NextRate]_vars

FreshRows(from, to) ==
    {r \in rates : /\ r.fromCurrency = from
                   /\ r.toCurrency = to
                   /\ now - r.timestamp <= OneHour}

\* C10: when a stored row for (from, to) timestamped within the last hour exists,
\* getExchangeRate answers the rate of the latest such row: the provider is not
\* called and no row is written.
C10_FreshStoredRateWins ==
    [][\A base \in Currencies :
          (resp'.kind = "rates" /\ resp'.base = base /\ FreshRows(base, Other(base)) # {})
          => /\ resp'.status = 200
             /\ \E r \in FreshRows(base, Other(base)) :
                   /\ \A q \in FreshRows(base, Other(base)) : q.timestamp <= r.timestamp
                   /\ resp'.rate = r.rate
             /\ calls' = 0
             /\ rates' = rates]_vars

C10_Witness ==
    /\ resp.kind = "rates"
    /\ resp.status = 200
    /\ calls = 0
    /\ \E r \in FreshRows(resp.base, Other(resp.base)) :
          /\ now - r.timestamp = OneHour
          /\ resp.rate = r.rate
          /\ provider[<<resp.base, Other(resp.base)>>] # Rate(r.rate)
    /\ \E q \in PairRows(rates, resp.base, Other(resp.base)) :
          now - q.timestamp > OneHour /\ q.rate # resp.rate

RateRequest(base) == resp'.kind = "rates" /\ resp'.base = base

\* C11: when no stored row of the pair is within the last hour and the provider
\* answers, getExchangeRate returns the fetched rate and adds exactly one row
\* holding it; no step ever modifies or deletes a stored row.
C11_FetchAppendsOneRow ==
    /\ [][\A base \in Currencies :
            (RateRequest(base) /\ FreshRows(base, Other(base)) = {}
             /\ provider[<<base, Other(base)>>].ok)
            => /\ resp'.status = 200
               /\ resp'.rate = provider[<<base, Other(base)>>].rate
               /\ calls' = 1
               /\ RateRow(base, Other(base), resp'.rate, now) \notin rates
               /\ rates' = rates \cup {RateRow(base, Other(base), resp'.rate, now)}]_vars
    /\ [][rates \subseteq rates']_vars

C11_Witness ==
    /\ resp.kind = "rates"
    /\ resp.status = 200
    /\ calls = 1
    /\ RateRow(resp.base, Other(resp.base), resp.rate, now) \in rates
    /\ \E q \in PairRows(rates, resp.base, Other(resp.base)) :
          now - q.timestamp > OneHour /\ q.rate # resp.rate

\* C12: when no stored row of the pair is within the last hour and the provider
\* fails, getExchangeRate returns the rate of the most recent stored row of the
\* pair whatever its age, and fails when the pair has no row; the table is left
\* unchanged either way.
C12_FallbackToLatestStored ==
    [][\A base \in Currencies :
          (RateRequest(base) /\ FreshRows(base, Other(base)) = {}
           /\ ~provider[<<base, Other(base)>>].ok)
          => /\ rates' = rates
             /\ calls' = 1
             /\ IF PairRows(rates, base, Other(base)) = {}
                THEN resp'.status = 500
                ELSE /\ resp'.status = 200
                     /\ \E r \in PairRows(rates, base, Other(base)) :
                           /\ \A q \in PairRows(rates, base, Other(base)) :
                                 q.timestamp <= r.timestamp
                           /\ resp'.rate = r.rate]_vars

C12_Witness ==
    /\ resp.kind = "rates"
    /\ resp.base \in Currencies
    /\ resp.status = 200
    /\ calls = 1
    /\ ~provider[<<resp.base, Other(resp.base)>>].ok
    /\ FreshRows(resp.base, Other(resp.base)) = {}
    /\ \E r, q \in PairRows(rates, resp.base, Other(resp.base)) :
          /\ q.timestamp < r.timestamp
          /\ q.rate # r.rate
          /\ resp.rate = r.rate

\* C13: a request naming a currency outside {CAD, USD} fails, without calling the
\* provider and without writing a row.
C13_UnsupportedCurrencyRejected ==
    [][(resp'.kind = "rates" /\ resp'.base \notin Currencies)
          => (resp'.status # 200 /\ calls' = 0 /\ rates' = rates)]_vars

NextConvert ==
    \/ Tick(RatePoints(now)) /\ UNCHANGED wlog
    \/ ProviderMove /\ UNCHANGED wlog
    \/ \E base \in Currencies : GetExchangeRates(base) /\ UNCHANGED wlog
    \/ \E x \in Amounts, a \in Currencies : ConvertRoundTrip(x, a) /\ UNCHANGED wlog

SpecConvert == InitRate /\ [][NextConvert]_vars

RAbs(a) == <<Abs(a[1]), a[2]>>

\* C14: converting an amount to the other currency and back gives the amount
\* again, within a hundredth of it, each conversion using the rate resolved
\* for its own direction.
C14_RoundTripReturnsAmount ==
    (resp.kind = "convert" /\ resp.status = 200)
        => RLe(RMul(R(100), RAbs(RSub(resp.back, resp.amount))), resp.amount)

(***************************************************************************)
(* Price layers: src/lib/asset-pricing.ts and /api/prices                  *)
(***************************************************************************)
CACHE_DURATION == 5

\* AssetPrice.price is Decimal(15, 4)
Round4(a) ==
    LET n == Abs(a[1]) * 10000
        q == (2 * n + a[2]) \div (2 * a[2])
    IN  Rat(IF a[1] < 0 THEN -q ELSE q, 10000)

CacheEntry(price, t) == [has |-> TRUE, price |-> price, timestamp |-> t]

PriceRow(symbol, price, t) ==
    [symbol |-> symbol, price |-> Round4(price.price), currency |-> price.currency,
     timestamp |-> t]

CacheFresh(cache, symbol, t) ==
    cache[symbol].has /\ t - cache[symbol].timestamp < CACHE_DURATION

\* fetchStockPrice / fetchBitcoinPrice: null on every failure
fetchPrice(symbol, mkt) == mkt[symbol]

\* prisma.assetPrice.create; (symbol, timestamp) is unique and the error is swallowed
saveAssetPrice(table, symbol, price, t) ==
    IF \E r \in table : r.symbol = symbol /\ r.timestamp = t
    THEN table
    ELSE table \cup {PriceRow(symbol, price, t)}

getCurrentPrice(cache, table, symbol, t, mkt) ==
    IF CacheFresh(cache, symbol, t)
    THEN [price |-> cache[symbol].price, cache |-> cache, table |-> table, calls |-> 0]
    ELSE LET price == fetchPrice(symbol, mkt)
         IN  IF price.ok
             THEN [price |-> price,
                   cache |-> [cache EXCEPT ![symbol] = CacheEntry(price, t)],
                   table |-> saveAssetPrice(table, symbol, price, t), calls |-> 1]
             ELSE [price |-> NoPrice, cache |-> cache, table |-> table, calls |-> 1]

SymbolRows(table, symbol) == {r \in table : r.symbol = symbol}

getLatestStoredPrice(table, symbol) ==
    IF SymbolRows(table, symbol) = {} THEN [found |-> FALSE]
    ELSE LET latest == CHOOSE r \in SymbolRows(table, symbol) :
                           \A q \in SymbolRows(table, symbol) : q.timestamp <= r.timestamp
         IN  [found |-> TRUE, price |-> Price(latest.price, latest.currency),
              timestamp |-> latest.timestamp]

StoredFreshInclusive(table, symbol, t) ==
    /\ getLatestStoredPrice(table, symbol).found
    /\ t - getLatestStoredPrice(table, symbol).timestamp <= MinutesPerHour

StoredFresh(table, symbol, t) ==
    /\ getLatestStoredPrice(table, symbol).found
    /\ t - getLatestStoredPrice(table, symbol).timestamp < MinutesPerHour

getOrFetchCurrentPrice(cache, table, symbol, t, mkt) ==
    IF CacheFresh(cache, symbol, t)
    THEN [price |-> cache[symbol].price, cache |-> cache, table |-> table, calls |-> 0]
    ELSE IF StoredFresh(table, symbol, t)
    THEN [price |-> getLatestStoredPrice(table, symbol).price, cache |-> cache,
          table |-> table, calls |-> 0]
    ELSE getCurrentPrice(cache, table, symbol, t, mkt)

BatchStart(cache, table) == [cache |-> cache, table |-> table, results |-> <<>>, calls |-> 0]

BatchAdd(acc, symbol, t, mkt) ==
    LET r == getCurrentPrice(acc.cache, acc.table, symbol, t, mkt)
    IN  [cache |-> r.cache, table |-> r.table,
         results |-> Append(acc.results, <<symbol, r.price>>), calls |-> acc.calls + r.calls]

RECURSIVE getCurrentPricesAbort(_, _, _, _)
getCurrentPricesAbort(acc, symbols, t, mkt) ==
    IF symbols = <<>> THEN acc
    ELSE LET next == BatchAdd(acc, Head(symbols), t, mkt)
         IN  IF next.results[Len(next.results)][2].ok
             THEN getCurrentPricesAbort(next, Tail(symbols), t, mkt)
             ELSE acc

RECURSIVE getCurrentPrices(_, _, _, _)
getCurrentPrices(acc, symbols, t, mkt) ==
    IF symbols = <<>> THEN acc
    ELSE getCurrentPrices(BatchAdd(acc, Head(symbols), t, mkt), Tail(symbols), t, mkt)

\* results[symbol] = price, in the order of the requests: the last assignment stays
ResultsRecord(results) ==
    [s \in {results[i][1] : i \in 1..Len(results)} |->
        LET last == CHOOSE i \in 1..Len(results) :
                        /\ results[i][1] = s
                        /\ \A j \in 1..Len(results) : results[j][1] = s => j <= i
        IN  results[last][2]]

\* GET /api/prices?symbol=
GetPrice(symbol) ==
    LET r == getCurrentPrice(priceCache, assetPrices, symbol, now, market)
    IN  /\ priceCache' = r.cache
        /\ assetPrices' = r.table
        /\ calls' = r.calls
        /\ resp' = [kind |-> "price", status |-> IF r.price.ok THEN 200 ELSE 404,
                    symbol |-> symbol, price |-> r.price]
        /\ UNCHANGED <<ledger, defaultCurrency, now, tz, snapshots, quote, fx, run, rates,
                       provider, market, tasks>>

\* GET /api/prices?symbols= and POST /api/prices
GetPrices(symbols) ==
    LET r == getCurrentPrices(BatchStart(priceCache, assetPrices), symbols, now, market)
    IN  /\ priceCache' = r.cache
        /\ assetPrices' = r.table
        /\ calls' = r.calls
        /\ resp' = [kind |-> "prices", status |-> 200, symbols |-> symbols,
                    prices |-> ResultsRecord(r.results)]
        /\ UNCHANGED <<ledger, defaultCurrency, now, tz, snapshots, quote, fx, run, rates,
                       provider, market, tasks>>

\* the price lookup of a valuation, for one held symbol
LookupPrice(symbol) ==
    LET r == getOrFetchCurrentPrice(priceCache, assetPrices, symbol, now, market)
    IN  /\ priceCache' = r.cache
        /\ assetPrices' = r.table
        /\ calls' = r.calls
        /\ resp' = [kind |-> "lookup", status |-> 200, symbol |-> symbol, price |-> r.price]
        /\ UNCHANGED <<ledger, defaultCurrency, now, tz, snapshots, quote, fx, run, rates,
                       provider, market, tasks>>

\* the server process starts again: the Map is empty
ServerRestart ==
    /\ priceCache # [s \in MarketSymbols |-> NoEntry]
    /\ priceCache' = [s \in MarketSymbols |-> NoEntry]
    /\ resp' = NoResp
    /\ UNCHANGED <<ledger, defaultCurrency, now, tz, snapshots, quote, fx, run, rates, calls,
                   provider, assetPrices, market, tasks>>

MarketAnswer(x, y) == [s \in MarketSymbols |-> IF s = "X" THEN x ELSE y]

MarketChoices ==
    {MarketAnswer(NoPrice, NoPrice),
     MarketAnswer(Price(R(3), "USD"), Price(R(2), "CAD")),
     MarketAnswer(Price(Rat(7, 2), "USD"), NoPrice),
     MarketAnswer(NoPrice, Price(R(2), "CAD"))}

PriceMove ==
    /\ \E m \in MarketChoices : m # market /\ market' = m
    /\ resp' = NoResp
    /\ UNCHANGED <<ledger, defaultCurrency, now, tz, snapshots, quote, fx, run, rates, calls,
                   provider, priceCache, assetPrices, tasks>>

PriceTick(points) ==
    /\ \E t \in points : t > now /\ now' = t
    /\ resp' = NoResp
    /\ UNCHANGED <<ledger, defaultCurrency, tz, snapshots, quote, fx, run, rates, calls,
                   provider, priceVars>>

PriceOffsets == {4, 5, 60}
PricePoints == {StartInstant + d : d \in PriceOffsets}
SymbolLists == {<<"X", "Y">>, <<"X", "X">>}

InitPrice ==
    /\ ledger = [u \in Users |-> <<>>]
    /\ defaultCurrency = [u \in Users |-> "CAD"]
    /\ now = StartInstant
    /\ tz = 0
    /\ snapshots = {}
    /\ quote = [s \in Symbols |-> NoPrice]
    /\ fx = ProviderDown
    /\ resp = NoResp
    /\ run = Idle
    /\ rates = {}
    /\ calls = 0
    /\ provider = ProviderDown
    /\ priceCache = [s \in MarketSymbols |-> NoEntry]
    /\ assetPrices = {}
    /\ market \in MarketChoices
    /\ tasks = NoTasks
    /\ wlog = NoLog

NextPrice ==
    \/ PriceTick(PricePoints) /\ UNCHANGED wlog
    \/ PriceMove /\ UNCHANGED wlog
    \/ ServerRestart /\ UNCHANGED wlog
    \/ \E s \in MarketSymbols : GetPrice(s) /\ UNCHANGED wlog
    \/ \E l \in SymbolLists : GetPrices(l) /\ UNCHANGED wlog
    \/ \E s \in MarketSymbols : LookupPrice(s) /\ UNCHANGED wlog

SpecPrice == InitPrice /\ [][NextPrice]_vars

CachedYoung(s) == priceCache[s].has /\ now - priceCache[s].timestamp < CACHE_DURATION

YoungRows(s) == {r \in assetPrices : r.symbol = s /\ now - r.timestamp < MinutesPerHour}

NewestRow(s) ==
    CHOOSE r \in assetPrices :
        r.symbol = s /\ \A q \in assetPrices : q.symbol = s => q.timestamp <= r.timestamp

StoredYoung(s) == YoungRows(s) # {} /\ NewestRow(s) \in YoungRows(s)

\* C15: getOrFetchCurrentPrice answers the cache entry when it is younger than 5
\* minutes; otherwise the latest stored row when it is younger than 1 hour;
\* otherwise it calls the provider and answers what the provider gave (or null).
\* The provider is called in no other case, and nothing stale is answered.
C15_LayersInOrder ==
    [][\A s \in MarketSymbols :
          (resp'.kind = "lookup" /\ resp'.symbol = s)
          => IF CachedYoung(s)
             THEN resp'.price = priceCache[s].price /\ calls' = 0
             ELSE IF StoredYoung(s)
             THEN /\ resp'.price = Price(NewestRow(s).price, NewestRow(s).currency)
                  /\ calls' = 0
             ELSE resp'.price = market[s] /\ calls' = 1]_vars

C15_Witness ==
    /\ resp.kind = "lookup"
    /\ calls = 0
    /\ priceCache[resp.symbol].has
    /\ now - priceCache[resp.symbol].timestamp >= CACHE_DURATION
    /\ StoredYoung(resp.symbol)
    /\ resp.price = Price(NewestRow(resp.symbol).price, NewestRow(resp.symbol).currency)
    /\ resp.price # market[resp.symbol]

Requested(symbols) == {symbols[i] : i \in 1..Len(symbols)}

FetchFails(s) == ~CachedYoung(s) /\ ~market[s].ok

KeepsPrices(s) ==
    /\ priceCache'[s] = priceCache[s]
    /\ {r \in assetPrices' : r.symbol = s} = {r \in assetPrices : r.symbol = s}

\* C16: a failed fetch gives null, not an error, and leaves the cache and the
\* stored prices as they were; a batch answers every requested symbol, null for
\* exactly the symbols whose price could not be obtained, each symbol's answer
\* being what it would be alone.
C16_FailedFetchIsNull ==
    /\ [][\A s \in MarketSymbols :
            (resp'.kind = "price" /\ resp'.symbol = s /\ FetchFails(s))
            => (resp'.status = 404 /\ resp'.price = NoPrice /\ KeepsPrices(s))]_vars
    /\ [][resp'.kind = "prices"
            => /\ resp'.status = 200
               /\ DOMAIN resp'.prices = Requested(resp'.symbols)
               /\ \A s \in Requested(resp'.symbols) :
                     /\ resp'.prices[s] =
                           IF CachedYoung(s) THEN priceCache[s].price ELSE market[s]
                     /\ ~resp'.prices[s].ok <=> FetchFails(s)
                     /\ FetchFails(s) => KeepsPrices(s)]_vars

C16_Witness ==
    /\ resp.kind = "prices"
    /\ resp.symbols = <<"X", "Y">>
    /\ resp.prices["X"].ok
    /\ ~resp.prices["Y"].ok
    /\ calls = 2
    /\ priceCache["X"] = CacheEntry(resp.prices["X"], now)
    /\ priceCache["Y"].has
    /\ priceCache["Y"].price # NoPrice

(***************************************************************************)
(* Price lookups in flight: Promise.all of the valuations, getCurrentPrices *)
(***************************************************************************)
MaxHeld == 6
BatchSize == 5
HeldSymbols == 1..MaxHeld

InFlight == IF tasks.kind = "none" THEN {} ELSE {s \in DOMAIN tasks.pos : tasks.pos[s] = "fetch"}

\* symbols.map(async symbol => getOrFetchCurrentPrice(symbol)): every lookup runs to
\* its first await
StartValuation(symbols) ==
    /\ tasks.kind = "none"
    /\ tasks' = [kind |-> "valuation",
                 pos |-> [s \in symbols |->
                             IF CacheFresh(priceCache, s, now) THEN "done" ELSE "db"],
                 waiting |-> <<>>]
    /\ resp' = NoResp
    /\ UNCHANGED <<ledger, defaultCurrency, now, tz, snapshots, quote, fx, run, rates, calls,
                   provider, priceCache, assetPrices, market>>

\* await getLatestStoredPrice returns; a stale or missing row leads into getCurrentPrice
StoredReturns(s) ==
    /\ tasks.kind = "valuation"
    /\ s \in DOMAIN tasks.pos
    /\ tasks.pos[s] = "db"
    /\ tasks' = [tasks EXCEPT !.pos[s] =
                    IF StoredFresh(assetPrices, s, now) \/ CacheFresh(priceCache, s, now)
                    THEN "done" ELSE "fetch"]
    /\ UNCHANGED <<ledger, defaultCurrency, now, tz, snapshots, quote, fx, resp, run, rates,
                   calls, provider, priceCache, assetPrices, market>>

\* await fetch(url) returns; a price is cached and saved
FetchReturns(s) ==
    /\ tasks.kind # "none"
    /\ s \in DOMAIN tasks.pos
    /\ tasks.pos[s] = "fetch"
    /\ tasks' = [tasks EXCEPT !.pos[s] = "done"]
    /\ priceCache' = IF fetchPrice(s, market).ok
                     THEN [priceCache EXCEPT ![s] = CacheEntry(fetchPrice(s, market), now)]
                     ELSE priceCache
    /\ assetPrices' = IF fetchPrice(s, market).ok
                      THEN saveAssetPrice(assetPrices, s, fetchPrice(s, market), now)
                      ELSE assetPrices
    /\ UNCHANGED <<ledger, defaultCurrency, now, tz, snapshots, quote, fx, resp, run, rates,
                   calls, provider, market>>

FirstBatch(symbols) == SubSeq(symbols, 1, IF Len(symbols) < BatchSize THEN Len(symbols) ELSE BatchSize)
RestBatches(symbols) == SubSeq(symbols, Len(FirstBatch(symbols)) + 1, Len(symbols))

BatchPos(old, batch) ==
    [s \in DOMAIN old |->
        IF \E i \in 1..Len(batch) : batch[i] = s
        THEN IF CacheFresh(priceCache, s, now) THEN "done" ELSE "fetch"
        ELSE old[s]]

\* getCurrentPrices: batch.map(async symbol => getCurrentPrice(symbol)) of the first batch
StartBatch(symbols) ==
    /\ tasks.kind = "none"
    /\ tasks' = [kind |-> "batch",
                 pos |-> BatchPos([s \in {symbols[i] : i \in 1..Len(symbols)} |-> "wait"],
                                  FirstBatch(symbols)),
                 waiting |-> RestBatches(symbols)]
    /\ resp' = NoResp
    /\ UNCHANGED <<ledger, defaultCurrency, now, tz, snapshots, quote, fx, run, rates, calls,
                   provider, priceCache, assetPrices, market>>

\* await Promise.all(promises) of a batch returns; the next batch starts
NextBatch ==
    /\ tasks.kind = "batch"
    /\ tasks.waiting # <<>>
    /\ \A s \in DOMAIN tasks.pos : tasks.pos[s] \in {"done", "wait"}
    /\ tasks' = [tasks EXCEPT !.pos = BatchPos(@, FirstBatch(tasks.waiting)),
                              !.waiting = RestBatches(tasks.waiting)]
    /\ UNCHANGED <<ledger, defaultCurrency, now, tz, snapshots, quote, fx, resp, run, rates,
                   calls, provider, priceCache, assetPrices, market>>

\* await Promise.all returns for the last time
LookupsDone ==
    /\ tasks.kind # "none"
    /\ tasks.waiting = <<>>
    /\ \A s \in DOMAIN tasks.pos : tasks.pos[s] = "done"
    /\ tasks' = NoTasks
    /\ resp' = [kind |-> tasks.kind, status |-> 200, symbols |-> DOMAIN tasks.pos]
    /\ UNCHANGED <<ledger, defaultCurrency, now, tz, snapshots, quote, fx, run, rates, calls,
                   provider, priceCache, assetPrices, market>>

HeldLists == {[i \in 1..n |-> i] : n \in {2, MaxHeld}}

FetchOffsets == {CACHE_DURATION, MinutesPerHour}

InitFetch ==
    /\ ledger = [u \in Users |-> <<>>]
    /\ defaultCurrency = [u \in Users |-> "CAD"]
    /\ now = StartInstant
    /\ tz = 0
    /\ snapshots = {}
    /\ quote = [s \in Symbols |-> NoPrice]
    /\ fx = ProviderDown
    /\ resp = NoResp
    /\ run = Idle
    /\ rates = {}
    /\ calls = 0
    /\ provider = ProviderDown
    /\ priceCache = [s \in HeldSymbols |-> NoEntry]
    /\ assetPrices = {}
    /\ market = [s \in HeldSymbols |-> IF s = 2 THEN NoPrice ELSE Price(R(3), "USD")]
    /\ tasks = NoTasks
    /\ wlog = NoLog

NextFetch ==
    \/ (tasks.kind = "none" /\ PriceTick({StartInstant + d : d \in FetchOffsets})) /\ UNCHANGED wlog
    \/ \E l \in HeldLists : StartValuation({l[i] : i \in 1..Len(l)}) /\ UNCHANGED wlog
    \/ \E l \in HeldLists : StartBatch(l) /\ UNCHANGED wlog
    \/ \E s \in HeldSymbols : StoredReturns(s) /\ UNCHANGED wlog
    \/ \E s \in HeldSymbols : FetchReturns(s) /\ UNCHANGED wlog
    \/ NextBatch /\ UNCHANGED wlog
    \/ LookupsDone /\ UNCHANGED wlog

SpecFetch == InitFetch /\ [][NextFetch]_vars

\* C17: at no moment are price requests for more than 5 symbols in flight.
C17_AtMostFiveInFlight == Cardinality(InFlight) <= BatchSize

(***************************************************************************)
(* Claims on the valuation of GET /api/portfolio                           *)
(***************************************************************************)
StockKeys(hs) == {k \in DOMAIN hs : ~hs[k].isCash}

C19_TotalAfterConversion ==
    resp.kind = "portfolio" =>
        \E c \in Currencies :
            resp.body.summary.totalValue =
                RSum([k \in DOMAIN resp.body.holdings |->
                         ConvertLive(resp.body.holdings[k], c, fx)],
                     DOMAIN resp.body.holdings)

RECURSIVE SignedCash(_, _, _)
SignedCash(txs, c, i) ==
    IF i > Len(txs) THEN 0
    ELSE SignedCash(txs, c, i + 1)
         + (IF txs[i].currency # c THEN 0
            ELSE IF txs[i].type = "DEPOSIT" THEN txs[i].quantity * txs[i].price
            ELSE IF txs[i].type = "WITHDRAWAL" THEN -(txs[i].quantity * txs[i].price)
            ELSE 0)

\* C20: the cash balance of a currency is the signed sum of its DEPOSITs and
\* WITHDRAWALs (quantity x price), never floored on the way; a strictly positive
\* balance gives one CASH holding with quantity = total cost = total value =
\* balance, prices 1 and no gain; a balance <= 0 gives no cash holding.
C20_CashBalance ==
    resp.kind = "portfolio" =>
        \A c \in Currencies :
            LET balance == SignedCash(ledger[resp.user], c, 1)
                hs == resp.body.holdings
                cash == {k \in DOMAIN hs : hs[k].isCash /\ hs[k].currency = c}
            IN  IF balance > 0
                THEN /\ cash = {Key("CASH", c)}
                     /\ hs[Key("CASH", c)] =
                           [symbol |-> "CASH", quantity |-> R(balance), avgPrice |-> R(1),
                            currentPrice |-> R(1), currency |-> c, totalValue |-> R(balance),
                            totalCost |-> R(balance), gainLoss |-> R(0),
                            gainLossPercent |-> R(0), isCash |-> TRUE]
                ELSE cash = {} /\ Key("CASH", c) \notin DOMAIN hs

C20_Witness ==
    /\ resp.kind = "portfolio"
    /\ Len(ledger[resp.user]) = MaxTx
    /\ ledger[resp.user][1].type = "WITHDRAWAL"
    /\ ledger[resp.user][1].currency = "CAD"
    /\ SignedCash(ledger[resp.user], "CAD", 1) > 0
    /\ Key("CASH", "CAD") \in DOMAIN resp.body.holdings

(***************************************************************************)
(* Ledger boundary: POST /api/transactions with its field check, the       *)
(* ticker directory and the effective date; GET /api/portfolio reading the *)
(* rows back ordered by date                                               *)
(***************************************************************************)
TickerDirectory ==
    {[symbol |-> "X", isActive |-> TRUE], [symbol |-> "W", isActive |-> FALSE]}

toUpperCase(symbol) == IF symbol = "cash" THEN "CASH" ELSE symbol

NoDate == 0
Yesterday == StartInstant - MinutesPerDay

Req(type, symbol, currency, quantity, price, date) ==
    [type |-> type, symbol |-> symbol, currency |-> currency,
     quantity |-> quantity, price |-> price, date |-> date]

\* what the JSON body of a request can carry
Requests ==
    {Req("BUY", "X", "CAD", qp[1], qp[2], d) :
        qp \in {<<1, 1>>, <<2, 1>>, <<-1, 3>>}, d \in {NoDate, Yesterday}}
    \cup {Req("BUY", "X", "CAD", 1, -1, Yesterday), Req("BUY", "X", "CAD", 0, 1, NoDate),
          Req("BUY", "X", "CAD", 1, 0, NoDate)}
    \cup {Req("SELL", "X", "CAD", 2, 1, d) : d \in {NoDate, Yesterday}}
    \cup {Req("BUY", s, "CAD", 1, 1, NoDate) : s \in {"W", "Z", "cash"}}
    \cup {Req("DEPOSIT", "CASH", c, 2, 1, NoDate) : c \in Currencies}
    \cup {Req("WITHDRAWAL", "CASH", "CAD", 1, 1, NoDate)}

LookupOutcomes == {"up", "findFails", "createFails"}

\* !symbol || !type || !quantity || !price || !currency
FieldMissing(req) ==
    \/ req.symbol = ""
    \/ req.type = ""
    \/ req.quantity = 0
    \/ req.price = 0
    \/ req.currency = ""

\* prisma.tickerSymbol.findFirst({where: {symbol, isActive: true}})
validSymbol(symbol) == \E r \in TickerDirectory : r.symbol = symbol /\ r.isActive

Consulted(req) == ~FieldMissing(req) /\ toUpperCase(req.symbol) # "CASH"

RejectedWhenUnreachable(req, db) ==
    \/ FieldMissing(req)
    \/ Consulted(req) /\ (db = "findFails" \/ ~validSymbol(toUpperCase(req.symbol)))

Rejected(req, db) ==
    \/ FieldMissing(req)
    \/ Consulted(req) /\ db # "findFails" /\ ~validSymbol(toUpperCase(req.symbol))

Row(req, t) ==
    [type |-> req.type, symbol |-> toUpperCase(req.symbol), currency |-> req.currency,
     quantity |-> req.quantity, price |-> req.price,
     date |-> IF req.date = NoDate THEN t ELSE req.date]

\* the request leaves its body in the response record as well (req), so that
\* properties can relate the body to the row inserted
AppendTransaction(u, req, db) ==
    /\ Len(ledger[u]) < MaxTx
    /\ calls' = IF Consulted(req) THEN 1 ELSE 0
    /\ IF Rejected(req, db)
       THEN /\ resp' = [kind |-> "append", status |-> 400, user |-> u, req |-> req, db |-> db]
            /\ UNCHANGED <<ledger, now>>
       ELSE IF db = "createFails"
       THEN /\ resp' = [kind |-> "append", status |-> 500, user |-> u, req |-> req, db |-> db]
            /\ UNCHANGED <<ledger, now>>
       ELSE /\ ledger' = [ledger EXCEPT ![u] = Append(@, Row(req, now))]
            /\ now' = now + 1
            /\ resp' = [kind |-> "append", status |-> 200, user |-> u, req |-> req, db |-> db]
    /\ UNCHANGED <<defaultCurrency, tz, snapshots, quote, fx, run, rates, provider, priceVars>>

Orderings(n) == {f \in [1..n -> 1..n] : \A i, j \in 1..n : i # j => f[i] # f[j]}

\* findMany({orderBy: {date: 'asc'}}): any order of the rows with ascending
\* dates; the query names no second key, so rows of one date come in any order
findManyByDate(rows) ==
    {[i \in 1..Len(rows) |-> rows[f[i]]] :
        f \in {g \in Orderings(Len(rows)) :
                 \A i, j \in 1..Len(rows) : i < j => rows[g[i]].date <= rows[g[j]].date}}

\* replay is the ghost copy of the rows as the query returned them
GetPortfolioByDate(u) ==
    /\ \E txs \in findManyByDate(ledger[u]) :
          resp' = [kind |-> "portfolio", status |-> 200, user |-> u,
                   body |-> PortfolioOf(txs, quote), replay |-> txs]
    /\ UNCHANGED <<ledger, defaultCurrency, now, tz, snapshots, quote, fx, run, rates, calls,
                   provider, priceVars>>

AppendSymbols == {"X", "W", "Z", "CASH"}

InitAppend ==
    /\ ledger = [u \in Users |-> <<>>]
    /\ defaultCurrency = [u \in Users |-> IF u = "u1" THEN "CAD" ELSE "USD"]
    /\ now = StartInstant
    /\ tz = 0
    /\ snapshots = {}
    /\ quote = [s \in AppendSymbols |-> IF s = "X" THEN Price(R(3), "USD") ELSE NoPrice]
    /\ fx = [d \in Directions |-> Unavailable]
    /\ resp = NoResp
    /\ run = Idle
    /\ rates = {}
    /\ calls = 0
    /\ provider = ProviderDown
    /\ PricesUnused
    /\ wlog = NoLog

NextAppend ==
    \/ \E req \in Requests, db \in LookupOutcomes :
          AppendTransaction("u1", req, db) /\ UNCHANGED wlog
    \/ GetPortfolioByDate("u1") /\ UNCHANGED wlog

SpecAppend == InitAppend /\ [][NextAppend]_vars

(***************************************************************************)
(* Claims on the ledger boundary and the replay                            *)
(***************************************************************************)
Prefixes(txs) == {SubSeq(txs, 1, i) : i \in 0..Len(txs)}

\* C21: the holdings returned hold no holding with quantity <= 0, and no holding
\* has a negative quantity or a negative total cost, in the output or at any
\* step of the fold.
C21_NoNegativeHolding ==
    resp.kind = "portfolio" =>
        /\ \A k \in DOMAIN resp.body.holdings :
              /\ resp.body.holdings[k].quantity[1] > 0
              /\ resp.body.holdings[k].totalCost[1] >= 0
        /\ \A pre \in Prefixes(resp.replay) :
              \A k \in DOMAIN FoldLedger(pre).holdings :
                  /\ FoldLedger(pre).holdings[k].quantity[1] >= 0
                  /\ FoldLedger(pre).holdings[k].totalCost[1] >= 0

\* the rows ordered by date, rows of one date in the order they were inserted
InsertionOrder(rows) ==
    LET f == CHOOSE g \in Orderings(Len(rows)) :
                 \A i, j \in 1..Len(rows) :
                     i < j => \/ rows[g[i]].date < rows[g[j]].date
                              \/ rows[g[i]].date = rows[g[j]].date /\ g[i] < g[j]
    IN  [i \in 1..Len(rows) |-> rows[f[i]]]

\* C22: the holdings returned are those of the replay in ascending date order
\* with transactions of one date applied in the order they were inserted.
C22_TiesByInsertionOrder ==
    resp.kind = "portfolio" =>
        resp.body = PortfolioOf(InsertionOrder(ledger[resp.user]), quote)

InsertedRow(req, t) ==
    [type |-> req.type, symbol |-> IF req.symbol = "cash" THEN "CASH" ELSE req.symbol,
     currency |-> req.currency, quantity |-> req.quantity, price |-> req.price,
     date |-> IF req.date = NoDate THEN t ELSE req.date]

\* C23: a request with all its fields and a working insert: symbol CASH is
\* inserted without a directory lookup; another symbol is inserted when the
\* directory holds it as active, rejected with nothing inserted when the
\* directory answers and does not, and inserted when the lookup itself fails.
C23_SoftValidation ==
    [][(resp'.kind = "append" /\ resp'.req.quantity # 0 /\ resp'.req.price # 0
           /\ resp'.db # "createFails" /\ (resp' # resp \/ ledger' # ledger))
       => LET req == resp'.req
              u == resp'.user
              symbol == IF req.symbol = "cash" THEN "CASH" ELSE req.symbol
              active == \E r \in TickerDirectory : r.symbol = symbol /\ r.isActive
              inserted == /\ resp'.status = 200
                          /\ ledger' = [ledger EXCEPT ![u] = Append(@, InsertedRow(req, now))]
              refused == resp'.status = 400 /\ ledger' = ledger
          IN  /\ symbol = "CASH" => inserted /\ calls' = 0
              /\ symbol # "CASH" /\ resp'.db = "findFails" => inserted
              /\ symbol # "CASH" /\ resp'.db = "up" /\ active => inserted
              /\ symbol # "CASH" /\ resp'.db = "up" /\ ~active => refused
              /\ symbol # "CASH" => calls' = 1]_vars

C23_Witness ==
    /\ resp.kind = "append"
    /\ resp.status = 200
    /\ resp.db = "findFails"
    /\ resp.req.symbol = "Z"
    /\ Len(ledger[resp.user]) = 2
    /\ ledger[resp.user][1].symbol = "CASH"
    /\ ledger[resp.user][2].symbol = "Z"

\* C24: every transaction of the ledger has quantity > 0.
C24_QuantityPositive ==
    \A u \in Users : \A i \in 1..Len(ledger[u]) : ledger[u][i].quantity > 0

IsCashTx(t) == t.type \in {"DEPOSIT", "WITHDRAWAL"}
IsStockTx(t) == ~IsCashTx(t)

\* C28: BUY and SELL leave the cash balances as the DEPOSITs and WITHDRAWALs
\* alone make them, DEPOSIT and WITHDRAWAL leave the security holdings as the
\* BUYs and SELLs alone make them, and the cash holding returned for a currency
\* has the deposited amount whatever was bought.
C28_CashAndSecuritiesApart ==
    resp.kind = "portfolio" =>
        /\ FoldLedger(resp.replay).cashBalances
              = FoldLedger(SelectSeq(resp.replay, IsCashTx)).cashBalances
        /\ FoldLedger(resp.replay).holdings
              = FoldLedger(SelectSeq(resp.replay, IsStockTx)).holdings
        /\ \A c \in Currencies :
              SignedCash(resp.replay, c, 1) > 0 =>
                  /\ Key("CASH", c) \in DOMAIN resp.body.holdings
                  /\ resp.body.holdings[Key("CASH", c)].quantity
                        = R(SignedCash(resp.replay, c, 1))

C28_Witness ==
    /\ resp.kind = "portfolio"
    /\ Len(resp.replay) = 2
    /\ resp.replay[1].type = "DEPOSIT" /\ resp.replay[1].currency = "CAD"
    /\ resp.replay[2].type = "BUY" /\ resp.replay[2].symbol = "X"
    /\ resp.replay[2].quantity = 2 /\ resp.replay[2].price = 1
    /\ resp.body.holdings[Key("CASH", "CAD")].quantity = R(2)
    /\ resp.body.holdings[Key("X", "CAD")].quantity = R(2)

\* C29: every position of the fold with a strictly positive quantity, and every
\* strictly positive cash balance, is a holding of the output.
C29_EveryPositionReturned ==
    resp.kind = "portfolio" =>
        LET st == FoldLedger(resp.replay)
            out == {resp.body.holdings[k] : k \in DOMAIN resp.body.holdings}
        IN  /\ \A k \in DOMAIN st.holdings :
                  st.holdings[k].quantity[1] > 0 =>
                      \E h \in out : /\ ~h.isCash
                                     /\ h.symbol = st.holdings[k].symbol
                                     /\ h.currency = st.holdings[k].currency
                                     /\ h.quantity = st.holdings[k].quantity
            /\ \A c \in DOMAIN st.cashBalances :
                  st.cashBalances[c][1] > 0 =>
                      \E h \in out : h.isCash /\ h.currency = c
                                              /\ h.quantity = st.cashBalances[c]

(***************************************************************************)
(* Claims on persistence errors, date keys and price currencies            *)
(***************************************************************************)
\* C25: when the write path failed (its read of the ledger or its upsert threw,
\* or no total could be computed), POST /api/portfolio/snapshot does not answer
\* with a success.
C25_WriteFailureSurfaced ==
    (resp.kind = "snapshot" /\ wlog.outcome = "failed") => resp.status # 200

\* C26: a snapshot written on local day D is the point dated D of a series
\* requested on a later day T with T - D <= days, with the stored value, for
\* every offset of the server's time zone.
C26_WrittenDayIsReadDay ==
    resp.kind = "series" =>
        \A r \in snapshots :
            (/\ r.userId = resp.user
             /\ LocalDay(r.date, tz) < Today
             /\ Today - LocalDay(r.date, tz) <= resp.daysInRange)
            => \E i \in 1..Len(resp.data) :
                  /\ resp.data[i].date = LocalDay(r.date, tz)
                  /\ resp.data[i].value = r.totalValue

\* C30: a priced holding is valued with a price of its own currency: the price
\* as answered when the answer is in the holding's currency, the price
\* converted into the holding's currency otherwise.
C30_PriceInHoldingCurrency ==
    resp.kind = "portfolio" =>
        \A k \in StockKeys(resp.body.holdings) :
            LET h == resp.body.holdings[k]
                p == quote[h.symbol]
            IN  p.ok =>
                    h.currentPrice = IF p.currency = h.currency THEN p.price
                                     ELSE RMul(p.price, LiveRate(fx, p.currency, h.currency))

(***************************************************************************)
(* Concurrent snapshot writes: POST /api/portfolio/snapshot, the forced and *)
(* the gated scheduler run at once, each invocation of                     *)
(* createPortfolioSnapshot advancing from one await to the next.  The      *)
(* upsert is a lookup by (userId, date) followed by an update or an insert; *)
(* the insert is refused by the unique index when the row exists by then   *)
(* (the single-statement upsert is the case where the two steps are        *)
(* adjacent).                                                              *)
(***************************************************************************)
Writers == {"post", "daily-snapshots", "run-scheduler"}

IdleWriter ==
    [pc |-> "idle", users |-> <<>>, todo |-> <<>>, found |-> FALSE, value |-> RZero,
     conflict |-> FALSE]

\* @@unique([userId, date]): an insert of an existing key raises an error
CreateRowNoConstraint(table, row) == [table |-> table \cup {row}, threw |-> FALSE]

CreateRow(table, row) ==
    IF \E r \in table : r.userId = row.userId /\ r.date = row.date
    THEN [table |-> table, threw |-> TRUE]
    ELSE [table |-> table \cup {row}, threw |-> FALSE]

\* the invocation for the head of todo has returned (normally or through its
\* catch); the loop goes on with the next user
Advance(w) ==
    [w EXCEPT !.todo = Tail(@), !.pc = IF Len(w.todo) > 1 THEN "read" ELSE "done",
              !.found = FALSE, !.value = RZero]

WritesInProgress == tasks.kind = "writes"

StartWrite(w) ==
    /\ WritesInProgress
    /\ tasks.pos[w].pc = "idle"
    /\ w = "run-scheduler" => GateOpen(now, tz)
    /\ \E users \in (IF w = "post" THEN {<<"u1">>} ELSE UserLists) :
          tasks' = [tasks EXCEPT !.pos[w] =
                       [IdleWriter EXCEPT !.pc = "read", !.users = users, !.todo = users]]
    /\ UNCHANGED <<ledger, defaultCurrency, now, tz, snapshots, quote, fx, resp, run, rates,
                   calls, provider, priceCache, assetPrices, market>>

\* await prisma.transaction.findMany, then the valuation
ReadLedger(w, db) ==
    /\ WritesInProgress
    /\ tasks.pos[w].pc = "read"
    /\ LET u == Head(tasks.pos[w].todo)
           v == SnapshotValuation(ledger[u], defaultCurrency[u], quote, fx)
       IN  tasks' = [tasks EXCEPT !.pos[w] =
                        IF db = "readFails" \/ Len(ledger[u]) = 0 \/ ~v.ok
                        THEN Advance(@)
                        ELSE [@ EXCEPT !.pc = "find", !.value = v.totalValue]]
    /\ UNCHANGED <<ledger, defaultCurrency, now, tz, snapshots, quote, fx, resp, run, rates,
                   calls, provider, priceCache, assetPrices, market>>

\* upsert, first half: is there a row for (userId, today 16:00)?
UpsertFind(w) ==
    /\ WritesInProgress
    /\ tasks.pos[w].pc = "find"
    /\ LET u == Head(tasks.pos[w].todo)
       IN  tasks' = [tasks EXCEPT !.pos[w].pc = "write",
                                  !.pos[w].found =
                                      \E r \in snapshots :
                                          r.userId = u /\ r.date = SnapshotDate(now, tz)]
    /\ UNCHANGED <<ledger, defaultCurrency, now, tz, snapshots, quote, fx, resp, run, rates,
                   calls, provider, priceCache, assetPrices, market>>

\* upsert, second half: update the row found, or insert; an error is caught
\* and logged by createPortfolioSnapshot
UpsertWrite(w, db) ==
    /\ WritesInProgress
    /\ tasks.pos[w].pc = "write"
    /\ LET me == tasks.pos[w]
           u == Head(me.todo)
           row == SnapshotRow(u, SnapshotDate(now, tz), me.value, defaultCurrency[u])
           created == CreateRow(snapshots, row)
       IN  IF db = "upsertFails"
           THEN /\ snapshots' = snapshots
                /\ tasks' = [tasks EXCEPT !.pos[w] = Advance(@)]
           ELSE IF me.found
           THEN /\ snapshots' = Upsert(snapshots, row)
                /\ tasks' = [tasks EXCEPT !.pos[w] = Advance(@)]
           ELSE /\ snapshots' = created.table
                /\ tasks' = [tasks EXCEPT !.pos[w] =
                                [Advance(@) EXCEPT !.conflict = @ \/ created.threw]]
    /\ UNCHANGED <<ledger, defaultCurrency, now, tz, quote, fx, resp, run, rates,
                   calls, provider, priceCache, assetPrices, market>>

InitWrite ==
    /\ ledger \in SchedLedgers
    /\ defaultCurrency = [u \in Users |-> IF u = "u1" THEN "CAD" ELSE "USD"]
    /\ tz \in SchedTzOffsets
    /\ now = LocalInstant(StartDay, MarketCloseHour, tz)
    /\ snapshots = {}
    /\ quote \in QuoteChoices
    /\ fx = [d \in Directions |-> IF d[1] = "USD" THEN Rate(Rat(11, 8)) ELSE Rate(Rat(8, 11))]
    /\ resp = NoResp
    /\ run = Idle
    /\ rates = {}
    /\ calls = 0
    /\ provider = ProviderDown
    /\ priceCache = [s \in MarketSymbols |-> NoEntry]
    /\ assetPrices = {}
    /\ market = [s \in MarketSymbols |-> NoPrice]
    /\ tasks = [kind |-> "writes", pos |-> [w \in Writers |-> IdleWriter]]
    /\ wlog = NoLog

NextWrite ==
    \/ MarketMove /\ UNCHANGED wlog
    \/ \E w \in Writers : StartWrite(w) /\ UNCHANGED wlog
    \/ \E w \in Writers, db \in {"up", "readFails"} : ReadLedger(w, db) /\ UNCHANGED wlog
    \/ \E w \in Writers : UpsertFind(w) /\ UNCHANGED wlog
    \/ \E w \in Writers, db \in {"up", "upsertFails"} : UpsertWrite(w, db) /\ UNCHANGED wlog

SpecWrite == InitWrite /\ [][NextWrite]_vars

Seen(w) ==
    {w.users[i] : i \in 1..(Len(w.users) - Len(w.todo))}
    \cup {w.todo[i] : i \in 1..Len(w.todo)}

\* C27: whatever the interleaving of the concurrent writers, the table holds at
\* most one row per (user, date), and every run goes through all of its
\* users: an error in one invocation ends neither the run nor another writer.
C27_OneRowUnderConcurrency ==
    WritesInProgress =>
        /\ \A r1, r2 \in snapshots :
              (r1.userId = r2.userId /\ r1.date = r2.date) => r1 = r2
        /\ \A w \in Writers :
              /\ tasks.pos[w].pc \in {"read", "find", "write"} => tasks.pos[w].todo # <<>>
              /\ tasks.pos[w].pc = "done" => tasks.pos[w].todo = <<>>
              /\ tasks.pos[w].pc # "idle" =>
                    Seen(tasks.pos[w]) = {tasks.pos[w].users[i] : i \in 1..Len(tasks.pos[w].users)}

C27_Witness ==
    /\ WritesInProgress
    /\ \A w \in Writers : tasks.pos[w].pc = "done"
    /\ tasks.pos["post"].conflict
    /\ tasks.pos["daily-snapshots"].conflict
    /\ ~tasks.pos["run-scheduler"].conflict
    /\ Cardinality({r \in snapshots : r.userId = "u1"}) = 1

====
